---- MODULE Spec2Model ----
(***************************************************************************)
(* Model of pvcraven/adventure_game: the OrcSprite animation state machine *)
(* (src/src/sprites/orc.py) and the window's input handling and camera     *)
(* follow (src/src/main.py, src/src/constants.py).                         *)
(*                                                                         *)
(* Time is counted in clock units, ClockUnitsPerSecond to the second;      *)
(* lengths are pixels; camera positions are fixed-point, CamScale to the   *)
(* pixel, so that the repeated interpolation by CAMERA_SPEED stays exact.  *)
(*                                                                         *)
(* Two specifications share the variables:                                 *)
(*   Spec        one OrcSprite driven through its public entry points      *)
(*   SpecWindow  the AdventureGameWindow event handlers                    *)
(***************************************************************************)
EXTENDS Integers, Sequences, FiniteSets

VARIABLES
    is_facing_right,    \* OrcSprite.is_facing_right
    attack_animation,   \* OrcSprite.attack_animation: 0 none, 1, 2
    texture_clock,      \* OrcSprite.texture_clock, in clock units
    animation_state,    \* OrcSprite.animation_state: index into texture_sets
    change_x,           \* OrcSprite.change_x (arcade.Sprite velocity)
    change_y,           \* OrcSprite.change_y
    error,              \* "none", or the exception that ended the program
    last_call,          \* the entry point called last
    left_pressed,       \* AdventureGameWindow.left_pressed
    right_pressed,
    up_pressed,
    down_pressed,
    player_change_x,    \* player_sprite.change_x
    player_change_y,    \* player_sprite.change_y
    player_position,    \* player_sprite.position, <<x, y>> in pixels
    camera_position,    \* camera_sprites.position, <<x, y>> in 1/CamScale pixels
    camera_gui_position,\* camera_gui.position, <<x, y>> in half pixels
    width,              \* window width in pixels
    height,             \* window height in pixels
    ticks               \* number of on_update calls so far

orc_vars == <<is_facing_right, attack_animation, texture_clock, animation_state,
              change_x, change_y>>
window_vars == <<left_pressed, right_pressed, up_pressed, down_pressed,
                 player_change_x, player_change_y, player_position,
                 camera_position, camera_gui_position, width, height, ticks>>
vars == <<orc_vars, window_vars, error, last_call>>

----------------------------------------------------------------------------
(* Bounds of the model *)

ClockUnitsPerSecond == 10   \* resolution of texture_clock
MaxDelta == 2               \* largest delta_time of one tick, in clock units
MaxTicks == 2               \* on_update calls of one run of SpecWindow

\* update is not taken past this clock value
MaxClock == ClockUnitsPerSecond + MaxTicks * MaxDelta

DeltaTimes == (-1) .. MaxDelta
OrcVelocities == {-1, 0, 1}

\* Elapsed times the window passes to on_update: a short and a long frame.
WindowDeltaTimes == {1, MaxDelta}

----------------------------------------------------------------------------
(* src/src/sprites/orc.py *)

ANIMATION_STATE_IDLE_RIGHT == 0
ANIMATION_STATE_WALK_RIGHT == 1
ANIMATION_STATE_ATTACK_1_RIGHT == 2
ANIMATION_STATE_ATTACK_2_RIGHT == 3

ANIMATION_STATE_IDLE_LEFT == 5
ANIMATION_STATE_WALK_LEFT == 6
ANIMATION_STATE_ATTACK_1_LEFT == 7
ANIMATION_STATE_ATTACK_2_LEFT == 8

\* Idle, Walk, attack 1, attack 2
sprite_count == <<6, 8, 6, 6>>

\* One texture per frame of a sprite-sheet row; from_right marks the frames cut
\* from the flipped sheet.
load_100x100_textures(row, count, from_right) ==
    [c \in 1 .. count |-> [row |-> row, column |-> c - 1, mirrored |-> from_right]]

\* AnimatedSprite.__init__ leaves texture_sets empty; OrcSprite.__init__ appends
\* the rows of the sheet (face right), then the rows of the flipped sheet.
texture_sets ==
    [i \in 1 .. Len(sprite_count) |->
        load_100x100_textures(i - 1, sprite_count[i], FALSE)]
    \o
    [i \in 1 .. Len(sprite_count) |->
        load_100x100_textures(i - 1, sprite_count[i], TRUE)]

\* Python's list index is 0-based; an index >= len raises IndexError.
ValidIndex(i) == i >= 0 /\ i < Len(texture_sets)
TextureSet(i) == texture_sets[i + 1]

\* The playback rate of line 70: animation_length = len(...) / 10 seconds.
FRAMES_PER_SECOND == 10

\* Mutant: the attack ends only once the clock has passed the length.
ClockReached_strict(clock, frames) ==
    clock * FRAMES_PER_SECOND > frames * ClockUnitsPerSecond

\* texture_clock >= len(texture_set) / 10, with the clock in clock units.
ClockReached(clock, frames) ==
    clock * FRAMES_PER_SECOND >= frames * ClockUnitsPerSecond

\* Mutant: the elapsed time is added as it comes.
AnimatedSprite_update_unclamped(clock, delta_time) == clock + delta_time

\* AnimatedSprite.update advances the clock by the elapsed time; a negative
\* elapsed time counts as zero.
AnimatedSprite_update(clock, delta_time) ==
    clock + (IF delta_time < 0 THEN 0 ELSE delta_time)

\* Mutant: the guard lets a second kind of attack through.
AttackGuard_second_kind == attack_animation > 1

\* The guard of attack_1 and attack_2: `if self.attack_animation > 0: return`.
AttackGuard == attack_animation > 0

\* Mutant: the attack starts in the right-facing state whatever the facing.
StartAttack_ignores_facing(kind, right_state, left_state) ==
    /\ attack_animation' = kind
    /\ texture_clock' = 0
    /\ animation_state' = right_state
    /\ UNCHANGED is_facing_right

\* The body of attack_1 / attack_2 after the guard.
StartAttack(kind, right_state, left_state) ==
    /\ attack_animation' = kind
    /\ texture_clock' = 0
    /\ animation_state' = IF is_facing_right THEN right_state ELSE left_state
    /\ UNCHANGED is_facing_right

attack_1 ==
    /\ error = "none"
    /\ last_call' = "attack_1"
    /\ IF AttackGuard
          THEN UNCHANGED <<is_facing_right, attack_animation, texture_clock,
                           animation_state>>
          ELSE StartAttack(1, ANIMATION_STATE_ATTACK_1_RIGHT,
                           ANIMATION_STATE_ATTACK_1_LEFT)
    /\ UNCHANGED <<change_x, change_y, error, window_vars>>

attack_2 ==
    /\ error = "none"
    /\ last_call' = "attack_2"
    /\ IF AttackGuard
          THEN UNCHANGED <<is_facing_right, attack_animation, texture_clock,
                           animation_state>>
          ELSE StartAttack(2, ANIMATION_STATE_ATTACK_2_RIGHT,
                           ANIMATION_STATE_ATTACK_2_LEFT)
    /\ UNCHANGED <<change_x, change_y, error, window_vars>>

\* Mutant: vertical-only movement walks in the right-facing state.
Locomotion_vertical_right(facing_right, cx, cy) ==
    IF cx < 0 THEN <<FALSE, ANIMATION_STATE_WALK_LEFT>>
    ELSE IF cx > 0 THEN <<TRUE, ANIMATION_STATE_WALK_RIGHT>>
    ELSE IF cy # 0
        THEN <<facing_right, ANIMATION_STATE_WALK_RIGHT>>
        ELSE <<facing_right, IF facing_right THEN ANIMATION_STATE_IDLE_RIGHT
                                             ELSE ANIMATION_STATE_IDLE_LEFT>>

\* Mutant: vertical-only movement is not seen as movement.
Locomotion_horizontal_only(facing_right, cx, cy) ==
    IF cx < 0 THEN <<FALSE, ANIMATION_STATE_WALK_LEFT>>
    ELSE IF cx > 0 THEN <<TRUE, ANIMATION_STATE_WALK_RIGHT>>
    ELSE <<facing_right, IF facing_right THEN ANIMATION_STATE_IDLE_RIGHT
                                         ELSE ANIMATION_STATE_IDLE_LEFT>>

\* Lines 74-91 of update: the elif chain taken when no attack is in progress.
\* The result is <<is_facing_right, animation_state>>.
Locomotion(facing_right, cx, cy) ==
    IF cx < 0 THEN <<FALSE, ANIMATION_STATE_WALK_LEFT>>
    ELSE IF cx > 0 THEN <<TRUE, ANIMATION_STATE_WALK_RIGHT>>
    ELSE IF cy # 0
        THEN <<facing_right, IF facing_right THEN ANIMATION_STATE_WALK_RIGHT
                                             ELSE ANIMATION_STATE_WALK_LEFT>>
        ELSE <<facing_right, IF facing_right THEN ANIMATION_STATE_IDLE_RIGHT
                                             ELSE ANIMATION_STATE_IDLE_LEFT>>

\* Mutant: the attack in progress is never ended.
AttackBranch_never_ends(clock) ==
    UNCHANGED <<attack_animation, is_facing_right, animation_state>>

\* Mutant: the movement branches run while the attack is in progress.
AttackBranch_moves(clock) ==
    /\ attack_animation' =
          IF ClockReached(clock, Len(TextureSet(animation_state)))
             THEN 0 ELSE attack_animation
    /\ is_facing_right' = Locomotion(is_facing_right, change_x, change_y)[1]
    /\ animation_state' = Locomotion(is_facing_right, change_x, change_y)[2]

\* Lines 69-72 of update: the attack in progress ends once the clock has
\* reached the length of the current texture set. The locomotion branches are
\* `elif`s of the same `if`, so they are not taken in this call.
AttackBranch(clock) ==
    /\ attack_animation' =
          IF ClockReached(clock, Len(TextureSet(animation_state)))
             THEN 0 ELSE attack_animation
    /\ UNCHANGED <<is_facing_right, animation_state>>

\* OrcSprite.update on the sprite's fields; error and last_call are left to
\* the caller's frame.
OrcUpdate(delta_time) ==
    LET clock == AnimatedSprite_update(texture_clock, delta_time) IN
    /\ clock <= MaxClock
    /\ IF ~ValidIndex(animation_state)
          THEN \* texture_sets[self.animation_state] raises IndexError
               /\ error' = "IndexError"
               /\ texture_clock' \in {texture_clock, clock}
               /\ UNCHANGED <<is_facing_right, attack_animation, animation_state>>
          ELSE /\ error' = "none"
               /\ texture_clock' = clock
               /\ IF attack_animation > 0
                     THEN AttackBranch(clock)
                     ELSE /\ is_facing_right' =
                                Locomotion(is_facing_right, change_x, change_y)[1]
                          /\ animation_state' =
                                Locomotion(is_facing_right, change_x, change_y)[2]
                          /\ UNCHANGED attack_animation
    /\ UNCHANGED <<change_x, change_y>>

update(delta_time) ==
    /\ error = "none"
    /\ last_call' = "update"
    /\ OrcUpdate(delta_time)
    /\ UNCHANGED window_vars

\* The movement intent of the sprite: change_x / change_y are plain attributes
\* that the sprite's owner assigns between ticks.
set_velocity(cx, cy) ==
    /\ error = "none"
    /\ <<cx, cy>> # <<change_x, change_y>>
    /\ last_call' = "set_velocity"
    /\ change_x' = cx
    /\ change_y' = cy
    /\ UNCHANGED <<is_facing_right, attack_animation, texture_clock,
                   animation_state, error, window_vars>>

----------------------------------------------------------------------------
(* src/src/constants.py *)

DEFAULT_WINDOW_WIDTH == 1600
DEFAULT_WINDOW_HEIGHT == 1200

\* CAMERA_SPEED = 0.1, as the fraction CAMERA_SPEED_NUM / CAMERA_SPEED_DEN
CAMERA_SPEED_NUM == 1
CAMERA_SPEED_DEN == 10

VIEWPORT_MARGIN == 400

\* DEFAULT_WINDOW_WIDTH / 2.0 - VIEWPORT_MARGIN; both defaults are even.
HORIZONTAL_BOUNDARY == DEFAULT_WINDOW_WIDTH \div 2 - VIEWPORT_MARGIN
VERTICAL_BOUNDARY == DEFAULT_WINDOW_HEIGHT \div 2 - VIEWPORT_MARGIN

\* arcade.LRBT(left, right, bottom, top), a module-level constant
CAMERA_BOUNDARY ==
    [left |-> -HORIZONTAL_BOUNDARY, right |-> HORIZONTAL_BOUNDARY,
     bottom |-> -VERTICAL_BOUNDARY, top |-> VERTICAL_BOUNDARY]

----------------------------------------------------------------------------
(* src/src/main.py *)

RECURSIVE Pow(_, _)
Pow(b, n) == IF n = 0 THEN 1 ELSE b * Pow(b, n - 1)

\* Camera positions are kept in 1/CamScale pixels: MaxTicks interpolations by
\* CAMERA_SPEED of a whole-pixel position have an exact value at this scale.
CamScale == Pow(CAMERA_SPEED_DEN, MaxTicks)

player_speed == 5

Keys == {"W", "A", "S", "D", "SPACE"}

\* Window sizes offered to on_resize.
WindowSizes == {<<DEFAULT_WINDOW_WIDTH, DEFAULT_WINDOW_HEIGHT>>, <<1000, 900>>}

\* Center of the window, in half pixels: Camera2D() and match_window(position=True).
WindowCenter(w, h) == <<w, h>>

\* Mutant: the opposite flag is not consulted.
update_player_speed_no_cancel(left, right, up, down) ==
    << IF left THEN -player_speed
       ELSE IF right THEN player_speed
       ELSE 0,
       IF up THEN player_speed
       ELSE IF down THEN -player_speed
       ELSE 0 >>

\* update_player_speed: <<change_x, change_y>> from the four flags.
update_player_speed(left, right, up, down) ==
    << IF left /\ ~right THEN -player_speed
       ELSE IF right /\ ~left THEN player_speed
       ELSE 0,
       IF up /\ ~down THEN player_speed
       ELSE IF down /\ ~up THEN -player_speed
       ELSE 0 >>

\* The common tail of on_key_press / on_key_release: the flag of `key` becomes
\* `pressed` and update_player_speed runs; any other key is ignored.
KeyEvent(key, pressed) ==
    /\ up_pressed' = IF key = "W" THEN pressed ELSE up_pressed
    /\ down_pressed' = IF key = "S" THEN pressed ELSE down_pressed
    /\ left_pressed' = IF key = "A" THEN pressed ELSE left_pressed
    /\ right_pressed' = IF key = "D" THEN pressed ELSE right_pressed
    /\ IF key \in {"W", "A", "S", "D"}
          THEN /\ player_change_x' =
                     update_player_speed(left_pressed', right_pressed',
                                         up_pressed', down_pressed')[1]
               /\ player_change_y' =
                     update_player_speed(left_pressed', right_pressed',
                                         up_pressed', down_pressed')[2]
          ELSE UNCHANGED <<player_change_x, player_change_y>>
    /\ UNCHANGED <<player_position, camera_position, camera_gui_position,
                   width, height, ticks, orc_vars, error>>

on_key_press(key) ==
    /\ error = "none"
    /\ last_call' = "on_key_press"
    /\ KeyEvent(key, TRUE)

on_key_release(key) ==
    /\ error = "none"
    /\ last_call' = "on_key_release"
    /\ KeyEvent(key, FALSE)

\* Mutant: a point outside the range pulls the camera onto the point itself.
constrain_axis_centres(cam, lo, hi, point) ==
    IF point * CamScale < cam + lo * CamScale THEN point * CamScale
    ELSE IF point * CamScale > cam + hi * CamScale THEN point * CamScale
    ELSE cam

\* arcade.camera.grips.constrain_boundary_xy on one axis: the camera coordinate
\* for which `point` is back inside [cam + lo, cam + hi]; `cam` itself when the
\* point is inside already. cam is in 1/CamScale pixels, point, lo, hi in pixels.
constrain_axis(cam, lo, hi, point) ==
    IF point * CamScale < cam + lo * CamScale THEN (point - lo) * CamScale
    ELSE IF point * CamScale > cam + hi * CamScale THEN (point - hi) * CamScale
    ELSE cam

\* Mutant: the horizontal axis is held to the vertical extent and vice versa.
constrain_boundary_xy_swapped(position, boundary, point) ==
    << constrain_axis(position[1], boundary.bottom, boundary.top, point[1]),
       constrain_axis(position[2], boundary.left, boundary.right, point[2]) >>

constrain_boundary_xy(position, boundary, point) ==
    << constrain_axis(position[1], boundary.left, boundary.right, point[1]),
       constrain_axis(position[2], boundary.bottom, boundary.top, point[2]) >>

\* Mutant: the step is a fraction of the target, not of the way to it.
lerp_adds_target(v1, v2, num, den) == v1 + (v2 * num) \div den

\* arcade.math.lerp: v1 + ((v2 - v1) * u), with u = num / den
lerp(v1, v2, num, den) == v1 + ((v2 - v1) * num) \div den

lerp_2d(p1, p2, num, den) ==
    << lerp(p1[1], p2[1], num, den), lerp(p1[2], p2[2], num, den) >>

\* scroll_to_player: the new camera position for a player at `point`.
scroll_to_player(position, point) ==
    lerp_2d(position,
            constrain_boundary_xy(position, CAMERA_BOUNDARY, point),
            CAMERA_SPEED_NUM, CAMERA_SPEED_DEN)

\* PhysicsEngineSimple.update: the player moves by its velocity, each axis
\* clipped where a wall is hit. The walls come from the tile map, so whether an
\* axis is blocked is left open.
physics_engine_update(position, cx, cy, blocked_x, blocked_y) ==
    << IF blocked_x THEN position[1] ELSE position[1] + cx,
       IF blocked_y THEN position[2] ELSE position[2] + cy >>

\* Mutant: the camera is scrolled before the physics engine moves the player.
on_update_camera_first(delta_time) ==
    /\ error = "none"
    /\ ticks < MaxTicks
    /\ last_call' = "on_update"
    /\ OrcUpdate(delta_time)
    /\ IF error' # "none"
          THEN UNCHANGED <<player_position, camera_position, ticks>>
          ELSE /\ ticks' = ticks + 1
               /\ camera_position' =
                     scroll_to_player(camera_position, player_position)
               /\ \E blocked_x, blocked_y \in BOOLEAN :
                     player_position' =
                        physics_engine_update(player_position, player_change_x,
                                              player_change_y, blocked_x, blocked_y)
    /\ UNCHANGED <<left_pressed, right_pressed, up_pressed, down_pressed,
                   player_change_x, player_change_y, camera_gui_position,
                   width, height>>

\* player_sprite.update and character_list.update (the orc), then the physics
\* engine, then scroll_to_player.
on_update(delta_time) ==
    /\ error = "none"
    /\ ticks < MaxTicks
    /\ last_call' = "on_update"
    /\ OrcUpdate(delta_time)
    /\ IF error' # "none"
          THEN UNCHANGED <<player_position, camera_position, ticks>>
          ELSE /\ ticks' = ticks + 1
               /\ \E blocked_x, blocked_y \in BOOLEAN :
                     player_position' =
                        physics_engine_update(player_position, player_change_x,
                                              player_change_y, blocked_x, blocked_y)
               /\ camera_position' =
                     scroll_to_player(camera_position, player_position')
    /\ UNCHANGED <<left_pressed, right_pressed, up_pressed, down_pressed,
                   player_change_x, player_change_y, camera_gui_position,
                   width, height>>

\* on_resize: the window takes the new size, camera_sprites.match_window() leaves
\* its position alone, camera_gui.match_window(position=True) recentres.
on_resize(w, h) ==
    /\ error = "none"
    /\ <<w, h>> # <<width, height>>
    /\ last_call' = "on_resize"
    /\ width' = w
    /\ height' = h
    /\ camera_gui_position' = WindowCenter(w, h)
    /\ UNCHANGED <<left_pressed, right_pressed, up_pressed, down_pressed,
                   player_change_x, player_change_y, player_position,
                   camera_position, ticks, orc_vars, error>>

----------------------------------------------------------------------------
(* Specifications *)

\* OrcSprite.__init__: texture_clock = random.uniform(0, 1)
OrcInit ==
    /\ is_facing_right = TRUE
    /\ attack_animation = 0
    /\ texture_clock \in 0 .. ClockUnitsPerSecond
    /\ animation_state = ANIMATION_STATE_IDLE_RIGHT
    /\ change_x = 0
    /\ change_y = 0

\* AdventureGameWindow.__init__ with the arguments of main()
WindowInit ==
    /\ left_pressed = FALSE
    /\ right_pressed = FALSE
    /\ up_pressed = FALSE
    /\ down_pressed = FALSE
    /\ player_change_x = 0
    /\ player_change_y = 0
    /\ width = DEFAULT_WINDOW_WIDTH
    /\ height = DEFAULT_WINDOW_HEIGHT
    /\ camera_gui_position = WindowCenter(width, height)
    /\ ticks = 0

\* The player where __init__ puts it, and the camera at the window's center.
ConstructedPositions ==
    /\ player_position = <<100, 950>>
    /\ camera_position = <<(DEFAULT_WINDOW_WIDTH \div 2) * CamScale,
                           (DEFAULT_WINDOW_HEIGHT \div 2) * CamScale>>

Init ==
    /\ OrcInit
    /\ WindowInit
    /\ ConstructedPositions
    /\ error = "none"
    /\ last_call = "__init__"

Next ==
    \/ attack_1
    \/ attack_2
    \/ \E delta_time \in DeltaTimes : update(delta_time)
    \/ \E cx, cy \in OrcVelocities : set_velocity(cx, cy)

Spec == Init /\ [][Next]_vars

\* An update tick with positive elapsed time.
PositiveTick == \E delta_time \in 1 .. MaxDelta : update(delta_time)

\* The sprite with attacks triggered only while it shows an Idle state, and
\* with update ticks of positive elapsed time that keep occurring: on_update
\* runs once per frame for as long as the window is open.
NextRoundTrip ==
    \/ animation_state \in {ANIMATION_STATE_IDLE_RIGHT, ANIMATION_STATE_IDLE_LEFT}
          /\ attack_1
    \/ animation_state \in {ANIMATION_STATE_IDLE_RIGHT, ANIMATION_STATE_IDLE_LEFT}
          /\ attack_2
    \/ \E delta_time \in DeltaTimes : update(delta_time)
    \/ \E cx, cy \in OrcVelocities : set_velocity(cx, cy)

SpecRoundTrip == Init /\ [][NextRoundTrip]_vars /\ WF_vars(PositiveTick)

\* Positions of the player a run has reached by walking, relative to a camera
\* that has settled: deep inside the dead zone, on each of its edges, one step
\* short of an edge, and outside it.
SettledCamera == <<1000, 800>>
PlayerOffsets ==
    {<<0, 0>>,
     <<HORIZONTAL_BOUNDARY, 0>>,
     <<-HORIZONTAL_BOUNDARY, VERTICAL_BOUNDARY>>,
     <<HORIZONTAL_BOUNDARY - player_speed, -VERTICAL_BOUNDARY>>,
     <<HORIZONTAL_BOUNDARY + 100, 0>>}

\* The orc's clock starts at the low end of random.uniform(0, 1).
InitWindow ==
    /\ OrcInit
    /\ texture_clock = 0
    /\ WindowInit
    /\ \/ ConstructedPositions
       \/ /\ camera_position = <<SettledCamera[1] * CamScale,
                                 SettledCamera[2] * CamScale>>
          /\ \E o \in PlayerOffsets :
                player_position = <<SettledCamera[1] + o[1], SettledCamera[2] + o[2]>>
    /\ error = "none"
    /\ last_call = "__init__"

NextWindow ==
    \/ \E key \in Keys : on_key_press(key)
    \/ \E key \in Keys : on_key_release(key)
    \/ \E delta_time \in WindowDeltaTimes : on_update(delta_time)
    \/ \E size \in WindowSizes : on_resize(size[1], size[2])

SpecWindow == InitWindow /\ [][NextWindow]_vars

TypeOK ==
    /\ is_facing_right \in BOOLEAN
    /\ attack_animation \in 0 .. 2
    /\ texture_clock \in 0 .. MaxClock
    /\ animation_state \in 0 .. 8
    /\ change_x \in OrcVelocities
    /\ change_y \in OrcVelocities
    /\ error \in {"none", "IndexError"}

----------------------------------------------------------------------------
(* Properties of the OrcSprite state machine, under Spec *)

\* The attack state of a kind of attack for a facing direction.
AttackState(kind, facing_right) ==
    IF kind = 1
       THEN IF facing_right THEN ANIMATION_STATE_ATTACK_1_RIGHT
                            ELSE ANIMATION_STATE_ATTACK_1_LEFT
       ELSE IF facing_right THEN ANIMATION_STATE_ATTACK_2_RIGHT
                            ELSE ANIMATION_STATE_ATTACK_2_LEFT

\* Frames of the sheet row of a kind of attack (rows: Idle, Walk, attack 1, 2).
AttackFrames(kind) == sprite_count[kind + 2]

IdleStates == {ANIMATION_STATE_IDLE_RIGHT, ANIMATION_STATE_IDLE_LEFT}
WalkStates == {ANIMATION_STATE_WALK_RIGHT, ANIMATION_STATE_WALK_LEFT}
RightStates == {ANIMATION_STATE_IDLE_RIGHT, ANIMATION_STATE_WALK_RIGHT}

\* C1: action atomicity. While an attack is in progress, every step (an update
\* tick, a change of change_x / change_y, a further attack_1 / attack_2 call)
\* that leaves the clock short of the attack's nominal duration leaves
\* animation_state at the attack state of that kind and of the facing the
\* attack started with, and leaves the kind and the facing as they were.
C1_ActionAtomicity ==
    [][ ( /\ attack_animation > 0
          /\ texture_clock' * FRAMES_PER_SECOND
                < AttackFrames(attack_animation) * ClockUnitsPerSecond )
        => ( /\ animation_state' = AttackState(attack_animation, is_facing_right)
             /\ attack_animation' = attack_animation
             /\ is_facing_right' = is_facing_right ) ]_vars

\* An attack 1 started facing left is still shown after update ticks that saw
\* movement intent to the right.
C1_Witness ==
    /\ last_call = "update"
    /\ attack_animation = 1
    /\ animation_state = ANIMATION_STATE_ATTACK_1_LEFT
    /\ ~is_facing_right
    /\ change_x > 0
    /\ texture_clock > 0

\* C2: an update call that finds an attack in progress and the clock at or past
\* the attack's nominal duration resets the action state and returns with
\* animation_state already the Idle or Walk state of the current movement
\* intent and facing.
C2_CompletionFallsThrough ==
    [][ ( /\ last_call' = "update"
          /\ error' = "none"
          /\ attack_animation > 0
          /\ texture_clock' * FRAMES_PER_SECOND
                >= AttackFrames(attack_animation) * ClockUnitsPerSecond )
        => ( /\ attack_animation' = 0
             /\ animation_state' \in IdleStates \cup WalkStates
             /\ animation_state' \in IdleStates <=> (change_x = 0 /\ change_y = 0) ) ]_vars

\* C3: in every reachable state animation_state is a valid index into
\* texture_sets and the indexed sequence is non-empty.
C3_StateResolves ==
    /\ ValidIndex(animation_state)
    /\ Len(TextureSet(animation_state)) > 0

\* C4: clock reset law. Whenever an operation leaves animation_state different
\* from what it was, texture_clock reads 0 at the end of that operation.
C4_ClockResetLaw ==
    [][ animation_state' # animation_state => texture_clock' = 0 ]_vars

\* C5: attack_1 (resp. attack_2) called while no action is in progress makes
\* the action state that kind, the clock 0 and animation_state the attack state
\* of that kind for the current facing, which it leaves unchanged.
C5_StartingAnAction ==
    [][ /\ (last_call' = "attack_1" /\ attack_animation = 0)
           => ( /\ attack_animation' = 1
                /\ texture_clock' = 0
                /\ is_facing_right' = is_facing_right
                /\ animation_state' = IF is_facing_right
                                         THEN ANIMATION_STATE_ATTACK_1_RIGHT
                                         ELSE ANIMATION_STATE_ATTACK_1_LEFT )
        /\ (last_call' = "attack_2" /\ attack_animation = 0)
           => ( /\ attack_animation' = 2
                /\ texture_clock' = 0
                /\ is_facing_right' = is_facing_right
                /\ animation_state' = IF is_facing_right
                                         THEN ANIMATION_STATE_ATTACK_2_RIGHT
                                         ELSE ANIMATION_STATE_ATTACK_2_LEFT ) ]_vars

\* attack_1 has just started an attack on a sprite facing left.
C5_Witness ==
    /\ last_call = "attack_1"
    /\ attack_animation = 1
    /\ texture_clock = 0
    /\ ~is_facing_right
    /\ animation_state = ANIMATION_STATE_ATTACK_1_LEFT

\* C6: attack_1 or attack_2 called while an action is in progress raises no
\* error and leaves attack_animation, texture_clock, animation_state and
\* is_facing_right unchanged.
C6_TriggerDropped ==
    [][ (last_call' \in {"attack_1", "attack_2"} /\ attack_animation > 0)
        => ( /\ error' = "none"
             /\ UNCHANGED <<attack_animation, texture_clock, animation_state,
                            is_facing_right>> ) ]_vars

\* attack_2 was called during an attack 1 whose clock had advanced.
C6_Witness ==
    /\ last_call = "attack_2"
    /\ attack_animation = 1
    /\ animation_state = ANIMATION_STATE_ATTACK_1_RIGHT
    /\ texture_clock > 0

\* C7: locomotion selection. An update call with no action in progress returns
\* with an Idle state iff change_x and change_y are both 0 and a Walk state
\* otherwise; change_x < 0 faces left, change_x > 0 faces right, change_x = 0
\* keeps the facing; the state selected is the one of the resulting facing.
\* (Every tick of a run without attack triggers is such a call.)
C7_LocomotionSelection ==
    [][ (last_call' = "update" /\ attack_animation = 0)
        => ( /\ error' = "none"
             /\ animation_state' \in IdleStates \cup WalkStates
             /\ animation_state' \in IdleStates <=> (change_x = 0 /\ change_y = 0)
             /\ change_x < 0 => ~is_facing_right'
             /\ change_x > 0 => is_facing_right'
             /\ change_x = 0 => is_facing_right' = is_facing_right
             /\ animation_state' \in RightStates <=> is_facing_right' ) ]_vars

\* An update tick with vertical-only movement on a sprite facing left.
C7_Witness ==
    /\ last_call = "update"
    /\ attack_animation = 0
    /\ change_x = 0
    /\ change_y # 0
    /\ ~is_facing_right
    /\ animation_state = ANIMATION_STATE_WALK_LEFT

----------------------------------------------------------------------------
(* Properties of the window, under SpecWindow *)

\* The velocity on one axis that the two flags of the axis stand for.
AxisIntent(negative_pressed, positive_pressed) ==
    IF negative_pressed = positive_pressed THEN 0
    ELSE IF negative_pressed THEN -player_speed
    ELSE player_speed

\* C8: opposing-key cancellation. After any sequence of key events the player's
\* change_x is 0 when left and right are both set or both clear, -player_speed
\* when only left is set, +player_speed when only right is set; change_y
\* likewise from down and up. The value is a function of the current flags.
C8_OpposingKeysCancel ==
    /\ player_change_x = AxisIntent(left_pressed, right_pressed)
    /\ player_change_y = AxisIntent(down_pressed, up_pressed)

\* Left and right are both held, and so is up alone.
C8_Witness ==
    /\ last_call = "on_key_press"
    /\ left_pressed /\ right_pressed
    /\ up_pressed /\ ~down_pressed
    /\ player_change_x = 0
    /\ player_change_y = player_speed

\* The boundary rectangle of a viewport of the given (even) size.
BoundaryFor(w, h) ==
    [left |-> -(w \div 2 - VIEWPORT_MARGIN), right |-> w \div 2 - VIEWPORT_MARGIN,
     bottom |-> -(h \div 2 - VIEWPORT_MARGIN), top |-> h \div 2 - VIEWPORT_MARGIN]

\* C9: the camera update of every tick constrains the player to the boundary
\* rectangle of the current window size, with half-extents
\* (width/2 - VIEWPORT_MARGIN, height/2 - VIEWPORT_MARGIN), also after on_resize.
C9_BoundaryFollowsResize ==
    [][ (last_call' = "on_update" /\ ticks' = ticks + 1)
        => camera_position' =
              lerp_2d(camera_position,
                      constrain_boundary_xy(camera_position,
                                            BoundaryFor(width, height),
                                            player_position'),
                      CAMERA_SPEED_NUM, CAMERA_SPEED_DEN) ]_vars

\* The player's offset from the camera lies within [-W, W] x [-H, H].
InDeadZone(position, point) ==
    /\ point[1] * CamScale - position[1] <= HORIZONTAL_BOUNDARY * CamScale
    /\ position[1] - point[1] * CamScale <= HORIZONTAL_BOUNDARY * CamScale
    /\ point[2] * CamScale - position[2] <= VERTICAL_BOUNDARY * CamScale
    /\ position[2] - point[2] * CamScale <= VERTICAL_BOUNDARY * CamScale

\* C10: camera dead zone. In a tick whose resolved player position lies within
\* the boundary rectangle around the camera, the constrained target is the
\* previous camera position, and the camera position is unchanged by the tick,
\* as it would be for any smoothing factor.
C10_CameraDeadZone ==
    [][ ( /\ last_call' = "on_update"
          /\ ticks' = ticks + 1
          /\ InDeadZone(camera_position, player_position') )
        => ( /\ constrain_boundary_xy(camera_position, CAMERA_BOUNDARY,
                                      player_position') = camera_position
             /\ camera_position' = camera_position
             /\ \A num \in 0 .. CAMERA_SPEED_DEN :
                   lerp_2d(camera_position,
                           constrain_boundary_xy(camera_position, CAMERA_BOUNDARY,
                                                 player_position'),
                           num, CAMERA_SPEED_DEN) = camera_position ) ]_vars

\* The player has walked right onto the right edge of the dead zone, at its
\* bottom edge, and the camera has not moved.
C10_Witness ==
    /\ last_call = "on_update"
    /\ player_change_x = player_speed
    /\ camera_position = <<SettledCamera[1] * CamScale, SettledCamera[2] * CamScale>>
    /\ player_position = <<SettledCamera[1] + HORIZONTAL_BOUNDARY,
                           SettledCamera[2] - VERTICAL_BOUNDARY>>

\* C11: camera clamp-to-edge and interpolation. In a tick whose resolved player
\* position exceeds the boundary extent on an axis, the constrained target on
\* that axis puts the player exactly on that boundary edge, and the new camera
\* position is previous + CAMERA_SPEED * (target - previous). With half-extents
\* (400, 200), as configured, camera (0, 0) and player (500, 0) the target is
\* (100, 0) and the new camera is (100, 0) for factor 1 and (10, 0) for factor
\* 0.1, the configured CAMERA_SPEED.
C11_ClampToEdgeAndLerp ==
    [][ (last_call' = "on_update" /\ ticks' = ticks + 1)
        => LET target == constrain_boundary_xy(camera_position, CAMERA_BOUNDARY,
                                               player_position')
               half == <<HORIZONTAL_BOUNDARY, VERTICAL_BOUNDARY>>
               scenario == constrain_boundary_xy(
                              <<0, 0>>,
                              [left |-> -400, right |-> 400,
                               bottom |-> -200, top |-> 200],
                              <<500, 0>>)
           IN  /\ \A i \in 1 .. 2 :
                     /\ player_position'[i] * CamScale - camera_position[i]
                           > half[i] * CamScale
                        => player_position'[i] * CamScale - target[i]
                              = half[i] * CamScale
                     /\ camera_position[i] - player_position'[i] * CamScale
                           > half[i] * CamScale
                        => target[i] - player_position'[i] * CamScale
                              = half[i] * CamScale
                     /\ camera_position'[i] * CAMERA_SPEED_DEN
                           = camera_position[i] * CAMERA_SPEED_DEN
                             + CAMERA_SPEED_NUM * (target[i] - camera_position[i])
               /\ <<HORIZONTAL_BOUNDARY, VERTICAL_BOUNDARY>> = <<400, 200>>
               /\ CAMERA_SPEED_NUM * 10 = CAMERA_SPEED_DEN
               /\ scenario = <<100 * CamScale, 0>>
               /\ lerp_2d(<<0, 0>>, scenario, 1, 1) = <<100 * CamScale, 0>>
               /\ lerp_2d(<<0, 0>>, scenario, CAMERA_SPEED_NUM, CAMERA_SPEED_DEN)
                     = <<10 * CamScale, 0>> ]_vars

\* The scenario, translated to the settled camera: the player stands 500 px to
\* the right of the camera, and one tick has moved the camera 10 px.
C11_Witness ==
    /\ last_call = "on_update"
    /\ ticks = 1
    /\ player_position = <<SettledCamera[1] + 500, SettledCamera[2]>>
    /\ camera_position = <<(SettledCamera[1] + 10) * CamScale,
                           SettledCamera[2] * CamScale>>

Abs(n) == IF n < 0 THEN -n ELSE n

\* The distance on axis i between a camera position and a target.
AxisDistance(position, target, i) == Abs(position[i] - target[i])

\* position is strictly nearer the target than `from` is, and not at it: no
\* axis is farther, and every axis that was off the target is nearer and off.
StrictlyNearer(position, from, target) ==
    /\ from # target
    /\ \A i \in 1 .. 2 :
          /\ AxisDistance(position, target, i) <= AxisDistance(from, target, i)
          /\ AxisDistance(from, target, i) > 0
             => /\ AxisDistance(position, target, i) > 0
                /\ AxisDistance(position, target, i) < AxisDistance(from, target, i)

\* A tick that left the player where it was.
TickPlayerHeld ==
    /\ last_call' = "on_update"
    /\ ticks' = ticks + 1
    /\ player_position' = player_position

----------------------------------------------------------------------------
(* Further properties of the OrcSprite state machine *)

\* The Idle state of a facing direction.
IdleState(facing_right) ==
    IF facing_right THEN ANIMATION_STATE_IDLE_RIGHT ELSE ANIMATION_STATE_IDLE_LEFT

\* attack_1 has just started an attack on a sprite facing d with no movement
\* intent.
Attack1Triggered(d) ==
    /\ last_call = "attack_1"
    /\ attack_animation = 1
    /\ texture_clock = 0
    /\ is_facing_right = d
    /\ animation_state = AttackState(1, d)
    /\ change_x = 0
    /\ change_y = 0

C14_NegativeDeltaClamped ==
    [][ /\ (\E delta_time \in DeltaTimes : delta_time < 0 /\ update(delta_time))
           => update(0)
        /\ last_call' = "update" => texture_clock' >= texture_clock ]_vars

\* An update call with no positive elapsed time has followed the start of an
\* attack: the clock still reads 0.
C14_Witness ==
    /\ last_call = "update"
    /\ attack_animation = 1
    /\ texture_clock = 0
    /\ -1 \in DeltaTimes

\* C15: action completion guard. attack_animation goes from non-zero to zero
\* only in an update call in which texture_clock has reached the number of
\* frames of the sequence indexed by animation_state over 10, and every update
\* call that finds an action in progress and that condition true takes it to
\* zero.
C15_CompletionGuard ==
    [][ /\ (attack_animation > 0 /\ attack_animation' = 0)
           => ( /\ last_call' = "update"
                /\ ValidIndex(animation_state)
                /\ texture_clock' * FRAMES_PER_SECOND
                      >= Len(TextureSet(animation_state)) * ClockUnitsPerSecond )
        /\ ( /\ last_call' = "update"
             /\ attack_animation > 0
             /\ ValidIndex(animation_state)
             /\ texture_clock' * FRAMES_PER_SECOND
                   >= Len(TextureSet(animation_state)) * ClockUnitsPerSecond )
           => attack_animation' = 0 ]_vars

\* An update call has just ended an attack 1 with the clock exactly at the
\* attack's length.
C15_Witness ==
    /\ last_call = "update"
    /\ attack_animation = 0
    /\ animation_state = ANIMATION_STATE_ATTACK_1_LEFT
    /\ texture_clock * FRAMES_PER_SECOND = AttackFrames(1) * ClockUnitsPerSecond

\* C16: tick ordering, under SpecWindow. The camera position a tick leaves is
\* the one scroll_to_player computes from the player position the physics
\* engine resolved in that same tick.
C16_TickOrdering ==
    [][ (last_call' = "on_update" /\ ticks' = ticks + 1)
        => camera_position' = scroll_to_player(camera_position, player_position') ]_vars

\* The player stood on the right edge of the boundary and has stepped out of
\* it in the first tick; the camera has followed by CAMERA_SPEED of the step.
C16_Witness ==
    /\ last_call = "on_update"
    /\ ticks = 1
    /\ player_position = <<SettledCamera[1] + HORIZONTAL_BOUNDARY + player_speed,
                           SettledCamera[2]>>
    /\ camera_position[1] * CAMERA_SPEED_DEN
          = SettledCamera[1] * CamScale * CAMERA_SPEED_DEN
            + player_speed * CamScale * CAMERA_SPEED_NUM
    /\ camera_position[2] = SettledCamera[2] * CamScale

\* The mirrored copy of a texture set.
Mirrored(set) == [c \in DOMAIN set |-> [set[c] EXCEPT !.mirrored = TRUE]]

LeftRightPairs ==
    { <<ANIMATION_STATE_IDLE_RIGHT, ANIMATION_STATE_IDLE_LEFT>>,
      <<ANIMATION_STATE_WALK_RIGHT, ANIMATION_STATE_WALK_LEFT>>,
      <<ANIMATION_STATE_ATTACK_1_RIGHT, ANIMATION_STATE_ATTACK_1_LEFT>>,
      <<ANIMATION_STATE_ATTACK_2_RIGHT, ANIMATION_STATE_ATTACK_2_LEFT>> }

\* C17: whichever left-facing state of Idle, Walk, Attack 1 and Attack 2 the
\* sprite shows, its code is the right-facing code plus the number of rows
\* loaded per direction, and the texture set it indexes is the mirrored copy
\* of the row the right-facing code indexes.
C17_LeftIsMirroredRight ==
    \A pair \in LeftRightPairs :
       animation_state = pair[2] =>
       /\ pair[2] = pair[1] + Len(sprite_count)
       /\ ValidIndex(pair[2])
       /\ TextureSet(pair[2]) = Mirrored(TextureSet(pair[1]))

AllRightStates ==
    {ANIMATION_STATE_IDLE_RIGHT, ANIMATION_STATE_WALK_RIGHT,
     ANIMATION_STATE_ATTACK_1_RIGHT, ANIMATION_STATE_ATTACK_2_RIGHT}
AllLeftStates ==
    {ANIMATION_STATE_IDLE_LEFT, ANIMATION_STATE_WALK_LEFT,
     ANIMATION_STATE_ATTACK_1_LEFT, ANIMATION_STATE_ATTACK_2_LEFT}

\* C18: state consistency. In every reachable state attack_animation is 0, 1
\* or 2, animation_state is a right-facing code iff is_facing_right and a
\* left-facing code otherwise, and attack_animation = k > 0 implies that
\* animation_state is the attack-k state for the current facing.
C18_StateConsistency ==
    /\ attack_animation \in {0, 1, 2}
    /\ animation_state \in (IF is_facing_right THEN AllRightStates
                                               ELSE AllLeftStates)
    /\ attack_animation > 0
       => animation_state = AttackState(attack_animation, is_facing_right)

\* An attack 2 started facing left is in progress while movement intent points
\* right.
C18_Witness ==
    /\ attack_animation = 2
    /\ ~is_facing_right
    /\ animation_state = ANIMATION_STATE_ATTACK_2_LEFT
    /\ change_x > 0

====
